---- MODULE Spec2Model ----
(***************************************************************************)
(* The interactive test-run session of the certification CLI:              *)
(*   - run_tests (app/commands/run_tests.py) and the receive loop of       *)
(*     TestRunSocket (th_cli/test_run/websocket.py);                       *)
(*   - the prompt dispatcher and its handlers                              *)
(*     (th_cli/test_run/prompt_manager.py);                                *)
(*   - the video handler's resources (th_cli/test_run/camera/).            *)
(*                                                                         *)
(* Spec       is the session: the command, the event channel, the receive  *)
(*            loop and the handlers the loop can reach.                    *)
(* SpecLive   is Spec with the socket task scheduled fairly.               *)
(* SpecPrompt is the prompt dispatcher called through its public entry     *)
(*            points with a request and an open socket.                    *)
(***************************************************************************)
EXTENDS Integers, Sequences, FiniteSets, TLC

(* ------------------------------ bounds -------------------------------- *)

\* Inbound messages the server sends in one session.
MaxMsgs == 3

\* Requests handed to the dispatcher's entry points in one run.
MaxCalls == 2

\* POSTs to /submit_response while one stream prompt is being handled.
MaxPosts == 1

\* POSTs to /submit_response in one session of stream prompts.
MaxFormPosts == 2

\* HTTP clients of /video_live.mp4.
MaxClients == 2

\* MP4 chunks put on mp4_queue while one server is up.
MaxChunks == 2

\* Calls of CameraHTTPServer.start in one process.
MaxStarts == 2

\* Signaling messages the backend sends to the peer.
MaxSig == 3

\* Values a stream's response_queue is let to hold.
MaxQueued == 2

\* Step and case updates a TestRunSocket logs.
MaxUpdates == 3

\* The timeout of a prompt, in seconds.
PromptSeconds == 1

\* Message ids: a request's id is its position in the session.
Mids == 1..(IF MaxMsgs > MaxCalls THEN MaxMsgs ELSE MaxCalls)

(* ------------------------ program constants --------------------------- *)

\* UserResponseStatusEnum
OKAY == 0
CANCELLED == -1
TIMEOUT == -2
INVALID == -3

MAX_FILE_SIZE == 100 * 1024 * 1024

\* CameraStreamHandler.__init__: both queues are made by queue.Queue(), whose
\* maxsize defaults to 0.
MP4_QUEUE_MAXSIZE == 0
RESPONSE_QUEUE_MAXSIZE == 0

\* The value the file-upload handler answers with after an HTTP 200.
SUCCESS == <<"SUCCESS">>
EmptyStr == <<>>

(* --------------------------- input domains ---------------------------- *)

\* Lines the user may type on standard input, as sequences of characters.
InputLines ==
    { <<>>, <<"1">>, <<"x">>, <<" ", "2">>, <<"1", "2">>, <<"1", "x">> }

\* The values of a prompt's options map (dict[str, int]).
OptionSets == { {2, 12} }

\* Regular expressions a text prompt may carry: a sequence of one-character
\* atoms ("d" is the class \d, anything else a literal), optionally followed
\* by "$".  none = TRUE is regex_pattern = None.
NoRegex == [none |-> TRUE, atoms |-> <<>>, dollar |-> FALSE]
Regexes ==
    { NoRegex,
      [none |-> FALSE, atoms |-> <<"d">>, dollar |-> FALSE],
      [none |-> FALSE, atoms |-> <<"d">>, dollar |-> TRUE] }

\* Sizes of the file the user names for upload.
FileSizes == { MAX_FILE_SIZE - 1, MAX_FILE_SIZE, MAX_FILE_SIZE + 1 }

\* Integers a browser may POST to /submit_response.
PostValues == { 2, 9 }

\* States a run update may carry (TestStateEnum).
RunStates == { "pending", "executing", "passed" }

(* --------------------------- pure functions --------------------------- *)

Digits == { "0", "1", "2", "7" }

DigitVal(c) == CASE c = "0" -> 0 [] c = "1" -> 1 [] c = "2" -> 2 [] c = "7" -> 7

RECURSIVE StripLeft(_)
StripLeft(s) == IF Len(s) > 0 /\ s[1] = " " THEN StripLeft(Tail(s)) ELSE s

RECURSIVE StripRight(_)
StripRight(s) ==
    IF Len(s) > 0 /\ s[Len(s)] = " "
    THEN StripRight(SubSeq(s, 1, Len(s) - 1))
    ELSE s

\* int(): surrounding whitespace is dropped, one sign is allowed.
Unsigned(s) ==
    LET t == StripRight(StripLeft(s))
    IN  IF Len(t) > 0 /\ t[1] \in { "-", "+" } THEN Tail(t) ELSE t

Negative(s) ==
    LET t == StripRight(StripLeft(s)) IN Len(t) > 0 /\ t[1] = "-"

\* int(input) does not raise ValueError.
IsIntLiteral(s) ==
    LET b == Unsigned(s) IN Len(b) > 0 /\ \A i \in 1..Len(b) : b[i] \in Digits

RECURSIVE Decimal(_)
Decimal(b) ==
    IF Len(b) = 0 THEN 0
    ELSE 10 * Decimal(SubSeq(b, 1, Len(b) - 1)) + DigitVal(b[Len(b)])

IntValue(s) == IF Negative(s) THEN 0 - Decimal(Unsigned(s)) ELSE Decimal(Unsigned(s))

\* __prompt_user_for_option: the input is returned only if it is an integer
\* that is one of prompt.options.values().
ValidOption_AnyInteger(line, options) == IsIntLiteral(line)

ValidOption(line, options) == IsIntLiteral(line) /\ IntValue(line) \in options

AtomMatches(a, c) == IF a = "d" THEN c \in Digits ELSE c = a

\* Every atom matches the character at its position, from the start of s.
PrefixMatches(r, s) ==
    /\ Len(s) >= Len(r.atoms)
    /\ \A i \in 1..Len(r.atoms) : AtomMatches(r.atoms[i], s[i])

\* re.match(pattern, input) is not None: a match at the start of the input;
\* what follows the match is not looked at unless the pattern ends in "$".
ReMatch(r, s) == PrefixMatches(r, s) /\ (r.dollar => Len(s) = Len(r.atoms))

\* The pattern matches the input as a whole (re.fullmatch).
FullMatch(r, s) == PrefixMatches(r, s) /\ Len(s) = Len(r.atoms)

\* __valid_text_input
ValidText(line, r) == IF r.none THEN TRUE ELSE ReMatch(r, line)

\* Subclasses of OptionsSelectPromptRequest declared in socket_schemas.py.
OptionsSubclasses == { "StreamVerificationPromptRequest" }

\* Request classes prompt_manager.py imports from socket_schemas but whose
\* declarations are not in it: they carry an options map like the
\* options-select request they are handled as.
UndeclaredOptionsSubclasses ==
    { "ImageVerificationPromptRequest", "TwoWayTalkVerificationRequest",
      "PushAVStreamVerificationRequest" }

IsInstance(kind, cls) ==
    \/ kind = cls
    \/ cls = "PromptRequest"
    \/ /\ cls = "OptionsSelectPromptRequest"
       /\ kind \in OptionsSubclasses \cup UndeclaredOptionsSubclasses

\* hasattr(request, 'options')
HasOptions(kind) == IsInstance(kind, "OptionsSelectPromptRequest")

\* The branch handle_prompt takes: the first isinstance test that holds.
HandlePromptBranch(kind) ==
    IF IsInstance(kind, "OptionsSelectPromptRequest") THEN "options"
    ELSE IF IsInstance(kind, "TextInputPromptRequest") THEN "text"
    ELSE IF IsInstance(kind, "StreamVerificationPromptRequest") THEN "video"
    ELSE IF IsInstance(kind, "ImageVerificationPromptRequest") THEN "image"
    ELSE IF \/ IsInstance(kind, "TwoWayTalkVerificationRequest")
            \/ IsInstance(kind, "PushAVStreamVerificationRequest") THEN "options"
    ELSE "unsupported"

\* Text is a sequence of characters.
UpperCase == <<"A", "B", "C", "D", "E", "F", "G", "H", "I", "J", "K", "L", "M", "N", "O", "P", "Q", "R", "S", "T", "U", "V", "W", "X", "Y", "Z">>
LowerCase == <<"a", "b", "c", "d", "e", "f", "g", "h", "i", "j", "k", "l", "m", "n", "o", "p", "q", "r", "s", "t", "u", "v", "w", "x", "y", "z">>

\* str.lower()
LowerChar(c) ==
    IF \E i \in 1..Len(UpperCase) : UpperCase[i] = c
    THEN LowerCase[CHOOSE i \in 1..Len(UpperCase) : UpperCase[i] = c]
    ELSE c

Lower(s) == [i \in 1..Len(s) |-> LowerChar(s[i])]

\* " ".join(all_errors)
RECURSIVE Join(_)
Join(list) ==
    IF list = << >> THEN << >>
    ELSE IF Len(list) = 1 THEN list[1]
    ELSE list[1] \o << " " >> \o Join(Tail(list))

\* "indicator in error_text"
Contains(text, sub) ==
    \E i \in 0..(Len(text) - Len(sub)) : SubSeq(text, i + 1, i + Len(sub)) = sub

webrtc_indicators ==
    { <<"b", "r", "o", "w", "s", "e", "r", "p", "e", "e", "r", "c", "o", "n", "n", "e", "c", "t", "i", "o", "n">>,
      <<"w", "e", "b", "r", "t", "c">>,
      <<"b", "r", "o", "w", "s", "e", "r", " ", "p", "e", "e", "r">>,
      <<"w", "s", ":", "/", "/", "b", "a", "c", "k", "e", "n", "d", "/", "a", "p", "i", "/", "v", "1", "/", "w", "s", "/", "w", "e", "b", "r", "t", "c">>,
      <<"c", "r", "e", "a", "t", "e", "_", "b", "r", "o", "w", "s", "e", "r", "_", "p", "e", "e", "r">> }

\* The public ids that are known to be WebRTC tests.
KnownWebRTCTests == { "TC_WEBRTC_1_6" }

\* The Run tree of the session: two suites of one case each.
CaseKeys == { << 0, 0 >>, << 1, 0 >> }
PublicId(k) == IF k = << 0, 0 >> THEN "TC_WEBRTC_1_6" ELSE "TC_AVSM_2_1"

\* The errors an update can carry: none, or one of these texts.
ErrorTexts ==
    { <<"N", "o", " ", "W", "e", "b", "R", "T", "C">>,
      <<"B", "r", "o", "w", "s", "e", "r">>,
      <<"P", "e", "e", "r", " ", "l", "o", "s", "t">>,
      <<"b", "u", "s", "y">> }
ErrorLists == { << >> } \cup { << e >> : e \in ErrorTexts }

\* TestStateEnum values an update of a test case is sent with.
CaseStates == { "passed", "failed", "error" }

(* ------------------------------- state -------------------------------- *)

VARIABLES
    cmd,        \* run_tests: "parse", "create", "start_run", "await_socket", "exit0", "exit1"
                \*            ("none": no command, the dispatcher is called directly)
    loop,       \* connect_websocket: "connecting", "recv", "handling",
                \*            "returned", "raised" ("direct": no receive loop)
    chan,       \* the event channel: "none", "open", "closed_client",
                \*            "closed_ok", "closed_err" (closed by the server)
    sent,       \* messages the server has sent on the channel
    taken,      \* messages socket.recv() has returned / requests handed over
    termAt,     \* value of taken when a non-executing run update was handled, 0 if none
    hpc,        \* per message id: where the prompt handler of that request stands
    req,        \* per message id: the prompt request being handled
    out,        \* the prompt_response messages sent on the channel, in order
    lastLine,   \* the line most recently read from standard input
    reprompted, \* the current prompt printed "Invalid input" at least once
    vid,        \* per message id: the resources of the video handler made for it
    upl         \* the file the upload handler was given: size, is a file, POST issued

\* One CameraStreamHandler with its HTTP server and its HTTP clients.
VARIABLES
    srv,        \* CameraHTTPServer and the ThreadingHTTPServer it made
    mp4q,       \* mp4_queue: MP4 chunks by number, 0 is the None that ends the stream
    produced,   \* chunks put on mp4_queue so far
    cl,         \* per HTTP client of /video_live.mp4: its handler thread
    respq,      \* response_queue
    lastPost    \* the last POST to /submit_response and the answer to it

\* One CLIWebRTCSession and its signaling socket.
VARIABLES
    rtc,        \* the session object and its signaling loop
    sigIn,      \* the signaling message handled last, and how many were handled
    sigOut      \* the signaling messages sent since that message was received

\* One TestRunSocket and the updates of test steps and test cases it logs.
VARIABLES
    stepErrors, \* test_case_step_errors: (suite index, case index) -> error strings
    lastUpd,    \* the step or case update logged last
    warned,     \* "not supported in CLI" warning blocks printed for that update
    nUpd        \* updates logged so far

\* The REST client of the run_tests command.
VARIABLES
    aclosed     \* calls of client.aclose() so far

\* One FFmpegStreamConverter and the transcoder process it runs.
VARIABLES
    ff          \* the converter, its process, and the steps of its last stop()

\* The receive loop of TestRunSocket.connect_websocket.
VARIABLES
    frame       \* the kind of the frame taken last, and whether the one before was skipped

\* asyncio.wait_for around the wait for a line of standard input.
VARIABLES
    clk         \* the prompt that waits, the time on its deadline timer, the time it has waited

sessVars == << cmd, loop, chan, sent, taken, termAt, hpc, req, out, lastLine, reprompted, vid, upl >>
streamVars == << srv, mp4q, produced, cl, respq, lastPost >>
rtcVars == << rtc, sigIn, sigOut >>

logVars == << stepErrors, lastUpd, warned, nUpd >>
cmdVars == << aclosed >>
ffVars == << ff >>
frameVars == << frame >>
timeVars == << clk >>

\* The variables of the models of single units further below.
unitVars == << logVars, cmdVars, ffVars, frameVars, timeVars >>

vars == << sessVars, streamVars, rtcVars, unitVars >>


NoReq == [kind |-> "none", options |-> {}, regex |-> NoRegex]

OptionKinds == { "OptionsSelectPromptRequest" } \cup OptionsSubclasses \cup UndeclaredOptionsSubclasses

Requests ==
    { [kind |-> k, options |-> o, regex |-> NoRegex] : k \in OptionKinds, o \in OptionSets }
    \cup { [kind |-> "TextInputPromptRequest", options |-> {}, regex |-> r] : r \in Regexes }
    \cup { [kind |-> "PromptRequest", options |-> {}, regex |-> NoRegex] }

\* The payload of a file_upload_request: prompt, timeout and message id.
FileUploadRequest == [kind |-> "PromptRequest", options |-> {}, regex |-> NoRegex]

\* No file has been given to __upload_file_and_send_response.
NoUpload == [size |-> 0, isfile |-> FALSE, posted |-> FALSE, status |-> "none", by |-> 0]

\* CameraStreamHandler.__init__ and CameraHTTPServer.__init__
NoVideo ==
    [ http |-> "none",     \* CameraHTTPServer: "none", "serving", "stopped"
      lsock |-> FALSE,     \* its listening socket is bound to the port
      task |-> "none",     \* _initialize_video_capture: "none", "starting", "done"
      webrtc |-> "none",   \* webrtc_session: "none", "open", "closed"
      ingest |-> "none",   \* websocket_manager: "none", "connected", "failed", "closed"
      ready |-> FALSE,     \* stream_ready_event
      stopped |-> FALSE,   \* stop_video_capture_and_stream has run
      url |-> FALSE,       \* the verification URL has been printed
      q |-> << >>,         \* response_queue
      posts |-> 0,         \* POSTs to /submit_response answered so far
      answer |-> 0,        \* user_answer
      during |-> 0 ]       \* the prompt during which user_answer was submitted

\* The handler waits for the user.
WaitStates == { "fu_wait", "opt_wait", "text_wait", "img_wait", "v_wait" }
\* The handler has finished; the closing "=====" line is still to be printed.
Ended == { "end_answered", "end_timeout", "end_error", "end_unsupported" }
\* The entry point has returned, or (not_called) was never entered.
Returned == { "ret_answered", "ret_timeout", "ret_error", "ret_unsupported", "not_called" }
Active(m) == hpc[m] \notin Returned \cup { "none" }
AwaitingUser == { m \in Mids : hpc[m] \in WaitStates }

\* Message ids of the prompt requests received so far.
Prompts == { m \in Mids : hpc[m] # "none" }

ResponsesFor(m) == { i \in 1..Len(out) : out[i].mid = m }

\* PromptResponse built by __send_prompt_response: the status is always OKAY.
PromptResponse(m, ival, sval) ==
    [mid |-> m, status |-> OKAY, ival |-> ival, sval |-> sval, seq |-> taken]

\* The awaiting caller goes on when the handler returns.
Resume(l) == IF l = "handling" THEN "recv" ELSE l
\* An exception leaves the handler and, in a session, the receive loop.
Raise(l) == IF l = "direct" THEN l ELSE "raised"

\* await socket.send(payload), after which the handler stands at pc; on a
\* closed channel send raises, and the exception leaves the entry point.
Send(m, resp, pc) ==
    IF chan = "open"
    THEN /\ out' = Append(out, resp)
         /\ hpc' = [hpc EXCEPT ![m] = pc]
         /\ UNCHANGED << loop, req >>
    ELSE /\ out' = out
         /\ hpc' = [hpc EXCEPT ![m] = "ret_error"]
         /\ loop' = Raise(loop)
         /\ req' = [req EXCEPT ![m] = NoReq]

Clients == 1..MaxClients

\* CameraHTTPServer.__init__; nothing was posted, no client is connected.
NoPost == [body |-> [t |-> "none"], status |-> 0, before |-> << >>]
NoClient == [state |-> "idle", since |-> 0, got |-> << >>]

StreamIdle ==
    /\ srv = [state |-> "none", lsock |-> FALSE, starts |-> 0, bindFailed |-> FALSE,
              stopOps |-> << >>]
    /\ mp4q = << >>
    /\ produced = 0
    /\ cl = [c \in Clients |-> NoClient]
    /\ respq = << >>
    /\ lastPost = NoPost

\* CLIWebRTCSession.__init__
NoSid == "absent"
NoMsg == [type |-> "none"]
NoSession ==
    [ sock |-> "none",          \* signaling_websocket: "none", "open", "closed"
      pc |-> "none",            \* peer_connection: "none", "new", "closed"
      loop |-> "none",          \* _handle_signaling_messages: "none", "running", "ended"
      sid |-> "cli-session",    \* session_id
      connected |-> FALSE,      \* connected
      state |-> "new",          \* connection_state
      lastEv |-> "none",        \* the last of: state "connected", "failed", "closed"; "close()"
      failed |-> FALSE,         \* connecting or handling a message has failed, and
                                \* the connection state has not changed since
      cpc |-> NoSid,            \* session id of the last CREATE_PEER_CONNECTION
      prev |-> NoSid,           \* session id of the one before it
      cpcs |-> 0,               \* CREATE_PEER_CONNECTION messages handled
      closes |-> 0 ]            \* CLOSE_PEER_CONNECTION messages handled

RtcIdle ==
    /\ rtc = NoSession
    /\ sigIn = [n |-> 0, msg |-> NoMsg, ops |-> << >>, added |-> << >>]
    /\ sigOut = << >>

\* FFmpegStreamConverter.__init__
NoConverter ==
    [ handle |-> FALSE,         \* ffmpeg_process is not None
      proc |-> "none",          \* the process started last: "none", "running", "exited"
      stdin |-> "none",         \* its standard input: "none", "open", "closed"
      fed |-> 0,                \* blocks written to its standard input
      read |-> 0,               \* chunks read from its standard output
      outq |-> 0,               \* chunks on output_queue
      starts |-> 0,             \* calls of start_conversion
      leaked |-> 0,             \* processes that stop() left running
      ops |-> << >> ]           \* what the last stop() did to the process, in order

\* TestRunSocket.__init__: no step error is tracked, nothing was logged.
NoUpdate == [kind |-> "none"]

LogIdle ==
    /\ stepErrors = [k \in CaseKeys |-> << >>]
    /\ lastUpd = NoUpdate
    /\ warned = 0
    /\ nUpd = 0

\* client.py: the client the command imports has not been closed.
NoFrame == [kind |-> "none", afterSkip |-> FALSE]

\* No wait_for has been started.
NoClock == [m |-> 0, timer |-> 0, waited |-> 0]

UnitsIdle == LogIdle /\ aclosed = 0 /\ ff = NoConverter /\ frame = NoFrame /\ clk = NoClock

Init ==
    /\ cmd = "parse"
    /\ loop = "connecting"
    /\ chan = "none"
    /\ sent = 0
    /\ taken = 0
    /\ termAt = 0
    /\ hpc = [m \in Mids |-> "none"]
    /\ req = [m \in Mids |-> NoReq]
    /\ out = << >>
    /\ lastLine = << >>
    /\ reprompted = FALSE
    /\ vid = [m \in Mids |-> NoVideo]
    /\ upl = NoUpload
    /\ StreamIdle
    /\ RtcIdle
    /\ UnitsIdle

InitPrompt ==
    /\ cmd = "none"
    /\ loop = "direct"
    /\ chan = "open"
    /\ sent = 0
    /\ taken = 0
    /\ termAt = 0
    /\ hpc = [m \in Mids |-> "none"]
    /\ req = [m \in Mids |-> NoReq]
    /\ out = << >>
    /\ lastLine = << >>
    /\ reprompted = FALSE
    /\ vid = [m \in Mids |-> NoVideo]
    /\ upl = NoUpload
    /\ StreamIdle
    /\ RtcIdle
    /\ UnitsIdle

(* ------------------------ run_tests (the command) --------------------- *)

Running == cmd \in { "start_run", "await_socket" }

\* "finally: await client.aclose()" on the way out of the try block.
Finally == aclosed + 1

\* configure_logger_for_run and __parse_selected_tests, before the try block:
\* a JSONDecodeError or FileNotFoundError becomes Exit(code=1), any other
\* exception leaves the command as it is.
ParseSelectedTests ==
    /\ cmd = "parse"
    /\ \E ok \in BOOLEAN : cmd' = IF ok THEN "create" ELSE "exit1"
    /\ UNCHANGED << loop, chan, sent, taken, termAt, hpc, req, out, lastLine, reprompted, vid >>
    /\ UNCHANGED << upl, streamVars, rtcVars, unitVars >>

\* __create_new_test_run: an UnexpectedResponse becomes Exit(code=1); on
\* success the socket task is created.
CreateNewTestRun ==
    /\ cmd = "create"
    /\ \E ok \in BOOLEAN :
         /\ cmd' = IF ok THEN "start_run" ELSE "exit1"
         /\ aclosed' = IF ok THEN aclosed ELSE Finally
    /\ UNCHANGED << loop, chan, sent, taken, termAt, hpc, req, out, lastLine, reprompted, vid >>
    /\ UNCHANGED << upl, streamVars, rtcVars, logVars, ffVars, frameVars, timeVars >>

\* __start_test_run: an UnexpectedResponse becomes Exit(code=1).
StartTestRun ==
    /\ cmd = "start_run"
    /\ \E ok \in BOOLEAN :
         /\ cmd' = IF ok THEN "await_socket" ELSE "exit1"
         /\ aclosed' = IF ok THEN aclosed ELSE Finally
    /\ UNCHANGED << loop, chan, sent, taken, termAt, hpc, req, out, lastLine, reprompted, vid >>
    /\ UNCHANGED << upl, streamVars, rtcVars, logVars, ffVars, frameVars, timeVars >>

\* await socket_task: the command goes on to print the log path when
\* connect_websocket returned, and fails with its exception when it raised.
AwaitSocketTask ==
    /\ cmd = "await_socket"
    /\ loop \in { "returned", "raised" }
    /\ cmd' = IF loop = "returned" THEN "exit0" ELSE "exit1"
    /\ aclosed' = Finally
    /\ UNCHANGED << loop, chan, sent, taken, termAt, hpc, req, out, lastLine, reprompted, vid >>
    /\ UNCHANGED << upl, streamVars, rtcVars, logVars, ffVars, frameVars, timeVars >>

(* ----------------------- the server and the channel ------------------- *)

ServerSend ==
    /\ Running
    /\ chan = "open"
    /\ sent < MaxMsgs
    /\ sent' = sent + 1
    /\ UNCHANGED << cmd, loop, chan, taken, termAt, hpc, req, out, lastLine, reprompted, vid >>
    /\ UNCHANGED << upl, streamVars, rtcVars, unitVars >>

\* The server ends the connection: with a normal close, or abnormally.
ServerClose ==
    /\ Running
    /\ chan = "open"
    /\ \E c \in { "closed_ok", "closed_err" } : chan' = c
    /\ UNCHANGED << cmd, loop, sent, taken, termAt, hpc, req, out, lastLine, reprompted, vid >>
    /\ UNCHANGED << upl, streamVars, rtcVars, unitVars >>

(* -------------------- TestRunSocket.connect_websocket ----------------- *)

Connect ==
    /\ Running
    /\ loop = "connecting"
    /\ \E ok \in BOOLEAN :
         IF ok THEN loop' = "recv" /\ chan' = "open"
               ELSE loop' = "raised" /\ chan' = chan
    /\ UNCHANGED << cmd, sent, taken, termAt, hpc, req, out, lastLine, reprompted, vid >>
    /\ UNCHANGED << upl, streamVars, rtcVars, unitVars >>

\* The loop is at "message = await socket.recv()".
CanReceive == loop = "recv"

\* socket.recv() on a closed connection: ConnectionClosedOK breaks out of the
\* loop, any other ConnectionClosed leaves connect_websocket as an exception.
AfterConnectionClosed(c) == IF c = "closed_err" THEN "raised" ELSE "returned"

RecvClosed ==
    /\ Running
    /\ CanReceive
    /\ chan \in { "closed_client", "closed_ok", "closed_err" }
    /\ loop' = AfterConnectionClosed(chan)
    /\ UNCHANGED << cmd, chan, sent, taken, termAt, hpc, req, out, lastLine, reprompted, vid >>
    /\ UNCHANGED << upl, streamVars, rtcVars, unitVars >>

Receiving == Running /\ CanReceive /\ chan = "open" /\ taken < sent

\* The frames the loop handles with nothing but output: a binary frame
\* ("continue"), a frame that fails validation (ValidationError is caught), a
\* time_out_notification ("pass"), log records, a message of no known kind.
SkippedKinds == { "binary", "invalid", "time_out_notification", "log_records", "unknown" }

\* The loop records the frame it took.
Took(kind) == frame' = [kind |-> kind, afterSkip |-> frame.kind \in SkippedKinds]

\* Where the loop stands after such a frame.
AfterSkipped_InvalidRaises(kind) == IF kind = "invalid" THEN "raised" ELSE "recv"

AfterSkipped(kind) == "recv"

RecvSkipped ==
    /\ Receiving
    /\ taken' = taken + 1
    /\ \E kind \in SkippedKinds :
         /\ Took(kind)
         /\ loop' = AfterSkipped(kind)
    /\ UNCHANGED << cmd, chan, sent, termAt, hpc, req, out, lastLine, reprompted, vid >>
    /\ UNCHANGED << upl, streamVars, rtcVars, logVars, cmdVars, ffVars, timeVars >>

\* __handle_test_update, TestRunUpdate: "if update.body.state != 'executing'"
\* then "await socket.close()"; the server answers the closing handshake, so
\* the connection ends with a normal close.
RunUpdateCloses_Never(state) == FALSE

RunUpdateCloses(state) == state # "executing"

RecvRunUpdate ==
    /\ Receiving
    /\ Took("run_update")
    /\ \E state \in RunStates :
         /\ taken' = taken + 1
         /\ termAt' = IF state # "executing" THEN taken + 1 ELSE termAt
         /\ chan' = IF RunUpdateCloses(state) THEN "closed_client" ELSE chan
    /\ UNCHANGED << cmd, loop, sent, hpc, req, out, lastLine, reprompted, vid >>
    /\ UNCHANGED << upl, streamVars, rtcVars, logVars, cmdVars, ffVars, timeVars >>

\* A suite, case or step update: its indices are positions in the Run tree,
\* or they are not and the lookup raises IndexError out of the loop.
RecvTreeUpdate ==
    /\ Receiving
    /\ Took("tree_update")
    /\ taken' = taken + 1
    /\ \E valid \in BOOLEAN :
         IF valid THEN loop' = loop /\ chan' = chan
                  ELSE loop' = "raised" /\ chan' = "closed_client"
    /\ UNCHANGED << cmd, sent, termAt, hpc, req, out, lastLine, reprompted, vid >>
    /\ UNCHANGED << upl, streamVars, rtcVars, logVars, cmdVars, ffVars, timeVars >>

\* A prompt request whose type is not FILE_UPLOAD_REQUEST: handle_prompt is
\* called with the keyword message_type, which handle_prompt(socket, request)
\* does not take; the TypeError leaves the loop.
RecvPromptRequest ==
    /\ Receiving
    /\ Took("prompt_request")
    /\ taken' = taken + 1
    /\ hpc' = [hpc EXCEPT ![taken + 1] = "not_called"]
    /\ loop' = "raised"
    /\ chan' = "closed_client"
    /\ UNCHANGED << cmd, sent, termAt, req, out, lastLine, reprompted, vid >>
    /\ UNCHANGED << upl, streamVars, rtcVars, logVars, cmdVars, ffVars, timeVars >>

\* "await handle_file_upload_request(...)": the loop waits for the handler.
AfterDispatch_NotAwaited == "recv"

AfterDispatch == "handling"

RecvFileUploadRequest ==
    /\ Receiving
    /\ Took("file_upload_request")
    /\ taken' = taken + 1
    /\ req' = [req EXCEPT ![taken + 1] = FileUploadRequest]
    /\ hpc' = [hpc EXCEPT ![taken + 1] = "fu_wait"]
    /\ loop' = AfterDispatch
    /\ lastLine' = << >>
    /\ reprompted' = FALSE
    /\ UNCHANGED << cmd, chan, sent, termAt, out, vid >>
    /\ UNCHANGED << upl, streamVars, rtcVars, logVars, cmdVars, ffVars, timeVars >>

(* ---------------------- prompt_manager: entry points ------------------ *)

Alive == cmd \in { "none", "start_run", "await_socket" }

\* The caller of an entry point awaits it: one call at a time.
CanCall == loop = "direct" /\ taken < MaxCalls /\ \A m \in Mids : ~Active(m)

FirstPc(branch) ==
    CASE branch = "options" -> "opt_wait"
      [] branch = "text" -> "text_wait"
      [] branch = "video" -> "v_start"
      [] branch = "image" -> "img_save"
      [] OTHER -> "end_unsupported"

Begin(r, pc) ==
    /\ taken' = taken + 1
    /\ req' = [req EXCEPT ![taken + 1] = r]
    /\ hpc' = [hpc EXCEPT ![taken + 1] = pc]
    /\ lastLine' = << >>
    /\ reprompted' = FALSE
    /\ UNCHANGED << cmd, loop, chan, sent, termAt, out, vid >>

\* handle_prompt(socket, request)
HandlePrompt ==
    /\ CanCall
    /\ \E r \in Requests : Begin(r, FirstPc(HandlePromptBranch(r.kind)))
    /\ UNCHANGED << upl, streamVars, rtcVars, unitVars >>

\* handle_file_upload_request(socket, request)
HandleFileUploadRequest ==
    /\ CanCall
    /\ Begin(FileUploadRequest, "fu_wait")
    /\ UNCHANGED << upl, streamVars, rtcVars, unitVars >>

\* handle_video_prompt_direct(socket, request): a request with options is
\* rebuilt as a StreamVerificationPromptRequest and given to the video handler.
HandleVideoPromptDirect ==
    /\ CanCall
    /\ \E r \in Requests :
         IF HasOptions(r.kind)
         THEN Begin([r EXCEPT !.kind = "StreamVerificationPromptRequest"], "v_start")
         ELSE Begin(r, FirstPc(HandlePromptBranch(r.kind)))
    /\ UNCHANGED << upl, streamVars, rtcVars, unitVars >>

\* handle_image_prompt_direct(socket, request)
HandleImagePromptDirect ==
    /\ CanCall
    /\ \E r \in Requests :
         IF HasOptions(r.kind) /\ r.kind = "ImageVerificationPromptRequest"
         THEN Begin(r, "img_save")
         ELSE Begin(r, FirstPc(HandlePromptBranch(r.kind)))
    /\ UNCHANGED << upl, streamVars, rtcVars, unitVars >>

RetOf(pc) ==
    CASE pc = "end_answered" -> "ret_answered"
      [] pc = "end_timeout" -> "ret_timeout"
      [] pc = "end_error" -> "ret_error"
      [] pc = "end_unsupported" -> "ret_unsupported"

\* The handler is back in its entry point, which returns to its caller
\* (handle_prompt and handle_file_upload_request print the closing line of
\* "=" first).
PromptDone(m) ==
    /\ Alive
    /\ hpc[m] \in Ended
    /\ hpc' = [hpc EXCEPT ![m] = RetOf(hpc[m])]
    /\ req' = [req EXCEPT ![m] = NoReq]
    /\ vid' = [vid EXCEPT ![m].answer = 0, ![m].during = 0]
    /\ upl' = NoUpload
    /\ loop' = Resume(loop)
    /\ lastLine' = << >>
    /\ reprompted' = FALSE
    /\ clk' = NoClock
    /\ UNCHANGED << cmd, chan, sent, taken, termAt, out >>
    /\ UNCHANGED << streamVars, rtcVars, logVars, cmdVars, ffVars, frameVars >>

(* ------------------- prompt_manager: standard input ------------------- *)

\* The handler waits for a line of standard input under asyncio.wait_for.
StdinWaits == { "fu_wait", "opt_wait", "text_wait", "img_wait" }

\* The clock of prompt m: it starts at zero with the call of wait_for.
ClockOf(m) == IF clk.m = m THEN clk ELSE [NoClock EXCEPT !.m = m]

\* One second passes while prompt m waits; at the deadline wait_for cancels
\* the wait before more time passes.
Tick(m) ==
    /\ Alive
    /\ hpc[m] \in StdinWaits
    /\ ClockOf(m).timer < PromptSeconds
    /\ clk' = [ClockOf(m) EXCEPT !.timer = @ + 1, !.waited = @ + 1]
    /\ UNCHANGED << sessVars, streamVars, rtcVars, logVars, cmdVars, ffVars, frameVars >>

\* An invalid line: the error is printed and the prompt function calls itself
\* (or loops) inside the one wait_for, whose deadline stays as it was.
TimerAfterInvalid_Restarted(timer) == 0

TimerAfterInvalid(timer) == timer

Reprompt(m) == clk' = [ClockOf(m) EXCEPT !.timer = TimerAfterInvalid(@)]

\* wait_for returns the line that was accepted: its timer is cancelled.
Accepted == clk' = NoClock

\* asyncio.wait_for(...) raises TimeoutError when the timeout has passed
\* while the handler waits for a line: the handler prints "timed out" and is
\* done.
PromptTimeout(m) ==
    /\ Alive
    /\ hpc[m] \in StdinWaits
    /\ ClockOf(m).timer = PromptSeconds
    /\ hpc' = [hpc EXCEPT ![m] = "end_timeout"]
    /\ UNCHANGED << cmd, loop, chan, sent, taken, termAt, req, out, lastLine, reprompted, vid >>
    /\ UNCHANGED << upl, streamVars, rtcVars, unitVars >>

\* __handle_options_prompt / __handle_image_prompt with __prompt_user_for_option
OptionsInput(m) ==
    /\ Alive
    /\ hpc[m] \in { "opt_wait", "img_wait" }
    /\ \E line \in InputLines :
         /\ lastLine' = line
         /\ IF ValidOption(line, req[m].options)
            THEN /\ Send(m, PromptResponse(m, IntValue(line), EmptyStr), "end_answered")
                 /\ reprompted' = reprompted
                 /\ Accepted
            ELSE /\ reprompted' = TRUE
                 /\ Reprompt(m)
                 /\ UNCHANGED << out, hpc, loop, req >>
    /\ UNCHANGED << cmd, chan, sent, taken, termAt, vid >>
    /\ UNCHANGED << upl, streamVars, rtcVars, logVars, cmdVars, ffVars, frameVars >>

\* __handle_text_prompt with __prompt_user_for_text_input
TextInput(m) ==
    /\ Alive
    /\ hpc[m] = "text_wait"
    /\ \E line \in InputLines :
         /\ lastLine' = line
         /\ IF ValidText(line, req[m].regex)
            THEN /\ Send(m, PromptResponse(m, 0, line), "end_answered")
                 /\ reprompted' = reprompted
                 /\ Accepted
            ELSE /\ reprompted' = TRUE
                 /\ Reprompt(m)
                 /\ UNCHANGED << out, hpc, loop, req >>
    /\ UNCHANGED << cmd, chan, sent, taken, termAt, vid >>
    /\ UNCHANGED << upl, streamVars, rtcVars, logVars, cmdVars, ffVars, frameVars >>

\* __handle_image_prompt: save_image_from_hex writes the image, or raises and
\* the handler is done in "except Exception".
ImageSave(m) ==
    /\ Alive
    /\ hpc[m] = "img_save"
    /\ \E ok \in BOOLEAN :
         hpc' = [hpc EXCEPT ![m] = IF ok THEN "img_wait" ELSE "end_error"]
    /\ UNCHANGED << cmd, loop, chan, sent, taken, termAt, req, out, lastLine, reprompted, vid >>
    /\ UNCHANGED << upl, streamVars, rtcVars, unitVars >>

(* --------------------- prompt_manager: file upload -------------------- *)

\* __prompt_user_for_file_upload: an empty line skips, a path that
\* __valid_file_upload accepts is returned, any other line is asked again.
FileUploadInput(m) ==
    /\ Alive
    /\ hpc[m] = "fu_wait"
    /\ \E path \in { "empty", "invalid", "valid" } :
         CASE path = "empty" ->
                /\ Send(m, PromptResponse(m, 0, EmptyStr), "end_answered")
                /\ upl' = [NoUpload EXCEPT !.by = m]
                /\ reprompted' = reprompted
                /\ Accepted
           [] path = "invalid" ->
                /\ reprompted' = TRUE
                /\ Reprompt(m)
                /\ UNCHANGED << out, hpc, loop, req, upl >>
           [] path = "valid" ->
                /\ hpc' = [hpc EXCEPT ![m] = "fu_upload"]
                /\ Accepted
                /\ UNCHANGED << out, loop, req, reprompted, upl >>
    /\ UNCHANGED << cmd, chan, sent, taken, termAt, lastLine, vid >>
    /\ UNCHANGED << streamVars, rtcVars, logVars, cmdVars, ffVars, frameVars >>

\* "if file_size > MAX_FILE_SIZE": the file is rejected before any request.
TooLarge_AtLimit(size) == size >= MAX_FILE_SIZE

TooLarge(size) == size > MAX_FILE_SIZE

\* "if response.status_code == 200": the value sent for a returned POST.
UploadValue_AnyStatus(post) == SUCCESS

UploadValue(post) == IF post = "200" THEN SUCCESS ELSE EmptyStr

\* __upload_file_and_send_response up to the response sent for the upload:
\* the file has gone, is too large, the POST raises, or the POST returns.
FileUpload(m) ==
    /\ Alive
    /\ hpc[m] = "fu_upload"
    /\ \E isfile \in BOOLEAN, size \in FileSizes, post \in { "200", "500", "RequestError" } :
         /\ upl' = [size |-> IF isfile THEN size ELSE 0, isfile |-> isfile,
                    posted |-> isfile /\ ~TooLarge(size),
                    status |-> IF isfile /\ ~TooLarge(size) THEN post ELSE "none",
                    by |-> m]
         /\ IF ~isfile \/ TooLarge(size) \/ post = "RequestError"
            THEN Send(m, PromptResponse(m, 0, EmptyStr), "end_answered")
            ELSE Send(m, PromptResponse(m, 0, UploadValue(post)), "fu_close")
    /\ UNCHANGED << cmd, chan, sent, taken, termAt, lastLine, reprompted, vid >>
    /\ UNCHANGED << streamVars, rtcVars, unitVars >>

\* Leaving "with open(...)" and "async with httpx.AsyncClient()" after the
\* response was sent: if closing raises, "except Exception" sends a response.
FileUploadClose(m) ==
    /\ Alive
    /\ hpc[m] = "fu_close"
    /\ \E raises \in BOOLEAN :
         IF raises
         THEN Send(m, PromptResponse(m, 0, EmptyStr), "end_answered")
         ELSE /\ hpc' = [hpc EXCEPT ![m] = "end_answered"]
              /\ UNCHANGED << out, loop, req >>
    /\ UNCHANGED << cmd, chan, sent, taken, termAt, lastLine, reprompted, vid >>
    /\ UNCHANGED << upl, streamVars, rtcVars, unitVars >>

(* ------------- handle_video_prompt_internal and its resources --------- *)

\* A stopped server object that nothing refers to any more is reclaimed by
\* the runtime, and its listening socket with it: when, is up to the runtime.
Reclaim(v, gc) == IF gc /\ v.http = "stopped" THEN [v EXCEPT !.lsock = FALSE] ELSE v

\* Port 8999 is free: no listening socket of any CameraHTTPServer is bound.
PortFree(vs) == \A k \in Mids : ~vs[k].lsock

\* start_video_capture_and_stream: stream_ready_event.clear(), then
\* CameraHTTPServer.start binds the port and starts the serving thread, then
\* the capture task is created.  A failed bind is re-raised and the handler
\* is done in "except Exception".
VideoStart(m) ==
    /\ Alive
    /\ hpc[m] = "v_start"
    /\ \E gc \in BOOLEAN :
         LET vs == [k \in Mids |-> Reclaim(vid[k], gc)]
         IN  IF PortFree(vs)
             THEN /\ vid' = [vs EXCEPT ![m].http = "serving", ![m].lsock = TRUE,
                                       ![m].task = "starting", ![m].ready = FALSE]
                  /\ hpc' = [hpc EXCEPT ![m] = "v_show"]
             ELSE /\ vid' = vs
                  /\ hpc' = [hpc EXCEPT ![m] = "end_error"]
    /\ UNCHANGED << cmd, loop, chan, sent, taken, termAt, req, out, lastLine, reprompted >>
    /\ UNCHANGED << upl, streamVars, rtcVars, unitVars >>

\* The prompt and "Please verify the video at: ..." are printed and the
\* browser is opened.
VideoShowUrl(m) ==
    /\ Alive
    /\ hpc[m] = "v_show"
    /\ vid' = [vid EXCEPT ![m].url = TRUE]
    /\ hpc' = [hpc EXCEPT ![m] = "v_wait"]
    /\ UNCHANGED << cmd, loop, chan, sent, taken, termAt, req, out, lastLine, reprompted >>
    /\ UNCHANGED << upl, streamVars, rtcVars, unitVars >>

\* _initialize_video_capture, the task created by start: the WebRTC session
\* connects, or the legacy video WebSocket does, or neither.
VideoCaptureTask(m) ==
    /\ Alive
    /\ vid[m].task = "starting"
    /\ \E how \in { "webrtc", "legacy", "failed" } :
         CASE how = "webrtc" ->
                vid' = [vid EXCEPT ![m].task = "done", ![m].webrtc = "open", ![m].ready = TRUE]
           [] how = "legacy" /\ ~vid[m].stopped ->
                vid' = [vid EXCEPT ![m].task = "done", ![m].ingest = "connected", ![m].ready = TRUE]
           [] OTHER ->
                vid' = [vid EXCEPT ![m].task = "done", ![m].ingest = "failed"]
    /\ UNCHANGED << cmd, loop, chan, sent, taken, termAt, hpc, req, out, lastLine, reprompted >>
    /\ UNCHANGED << upl, streamVars, rtcVars, unitVars >>

\* The prompt whose entry point has not returned yet, if there is one.
ActivePrompt == IF \E k \in Mids : Active(k) THEN CHOOSE k \in Mids : Active(k) ELSE 0

\* VideoStreamingHandler.handle_response: a POST to /submit_response, taken by
\* the server of prompt m for as long as it serves, puts its integer on the
\* response_queue that server was started with.
HandleResponse(m, max) ==
    /\ Alive
    /\ vid[m].http = "serving"
    /\ vid[m].posts < max
    /\ \E v \in PostValues :
         vid' = [vid EXCEPT ![m].q = Append(@, [v |-> v, during |-> ActivePrompt]),
                            ![m].posts = @ + 1]

\* The user submits the form of prompt m while the prompt is open.
SubmitResponse(m) ==
    /\ Active(m)
    /\ HandleResponse(m, MaxPosts)
    /\ UNCHANGED << cmd, loop, chan, sent, taken, termAt, hpc, req, out, lastLine, reprompted >>
    /\ UNCHANGED << upl, streamVars, rtcVars, unitVars >>

\* "self.response_queue = queue.Queue()" in __init__: the queue the handler
\* of prompt m polls is its own.
QueueOf_Oldest(m, vs) ==
    IF \E k \in Mids : vs[k].q # << >>
    THEN CHOOSE k \in Mids : vs[k].q # << >> /\ \A j \in Mids : vs[j].q # << >> => k <= j
    ELSE m

QueueOf(m, vs) == m

\* POSTs answered so far by the servers of the prompts in S.
RECURSIVE PostsOf(_)
PostsOf(S) ==
    IF S = {} THEN 0
    ELSE LET k == CHOOSE k \in S : TRUE IN vid[k].posts + PostsOf(S \ {k})

\* A POST, from the form or from any other client, at any time: also to a
\* server that was left serving when its prompt ended.
PostAnyTime(m) ==
    /\ PostsOf(Mids) < MaxFormPosts
    /\ HandleResponse(m, MaxFormPosts)
    /\ UNCHANGED << cmd, loop, chan, sent, taken, termAt, hpc, req, out, lastLine, reprompted >>
    /\ UNCHANGED << upl, streamVars, rtcVars, unitVars >>

\* wait_for_user_response returns the value it finds on response_queue.
VideoAnswer(m) ==
    /\ Alive
    /\ hpc[m] = "v_wait"
    /\ LET k == QueueOf(m, vid)
       IN  /\ vid[k].q # << >>
           /\ vid' = [vid EXCEPT ![k].q = Tail(@),
                                  ![m].answer = Head(vid[k].q).v,
                                  ![m].during = Head(vid[k].q).during]
    /\ hpc' = [hpc EXCEPT ![m] = "v_stop"]
    /\ UNCHANGED << cmd, loop, chan, sent, taken, termAt, req, out, lastLine, reprompted >>
    /\ UNCHANGED << upl, streamVars, rtcVars, unitVars >>

\* wait_for_user_response returns None when the timeout has passed: the
\* handler prints "No response received" and returns None.
VideoDeadline(m) ==
    /\ Alive
    /\ hpc[m] = "v_wait"
    /\ hpc' = [hpc EXCEPT ![m] = "end_timeout"]
    /\ UNCHANGED << cmd, loop, chan, sent, taken, termAt, req, out, lastLine, reprompted, vid >>
    /\ UNCHANGED << upl, streamVars, rtcVars, unitVars >>

\* CameraHTTPServer.stop: server.shutdown() ends serve_forever; the server
\* object is dropped without server_close().
HttpAfterStop_StillServing(h) == h

HttpAfterStop(h) == IF h = "serving" THEN "stopped" ELSE h

\* stop_video_capture_and_stream: the WebRTC session, if one is set, is
\* closed; the WebSocket manager is stopped; the HTTP server is stopped.
VideoStop(m) ==
    /\ Alive
    /\ hpc[m] = "v_stop"
    /\ vid' = [vid EXCEPT ![m].webrtc = IF @ = "open" THEN "closed" ELSE @,
                          ![m].ingest = IF @ = "connected" THEN "closed" ELSE @,
                          ![m].http = HttpAfterStop(@),
                          ![m].stopped = TRUE]
    /\ hpc' = [hpc EXCEPT ![m] = "v_send"]
    /\ UNCHANGED << cmd, loop, chan, sent, taken, termAt, req, out, lastLine, reprompted >>
    /\ UNCHANGED << upl, streamVars, rtcVars, unitVars >>

\* __send_prompt_response(input=user_answer), then "return user_answer".
VideoSend(m) ==
    /\ Alive
    /\ hpc[m] = "v_send"
    /\ Send(m, PromptResponse(m, vid[m].answer, EmptyStr), "end_answered")
    /\ UNCHANGED << cmd, chan, sent, taken, termAt, lastLine, reprompted, vid >>
    /\ UNCHANGED << upl, streamVars, rtcVars, unitVars >>

(* ------------- CameraHTTPServer and the clients of the stream --------- *)

\* JSON bodies a client may POST to /submit_response; "nolength" is a
\* request without a Content-Length header.  v is the number (a float in
\* tenths), s the string.
PostBodies ==
    { [t |-> "nolength", v |-> 0, s |-> << >>],
      [t |-> "notjson", v |-> 0, s |-> << >>],
      [t |-> "nonobject", v |-> 0, s |-> << >>],
      [t |-> "nokey", v |-> 0, s |-> << >>],
      [t |-> "null", v |-> 0, s |-> << >>],
      [t |-> "int", v |-> 2, s |-> << >>],
      [t |-> "float", v |-> 25, s |-> << >>],
      [t |-> "str", v |-> 0, s |-> <<"1", "2">>],
      [t |-> "str", v |-> 0, s |-> <<"x">>],
      [t |-> "list", v |-> 0, s |-> << >>] }

\* int(raw_response): an int is itself, a float is truncated toward zero, a
\* string is parsed, anything else is a TypeError.
PyInt(b) ==
    CASE b.t = "int" -> [ok |-> TRUE, v |-> b.v, err |-> "none"]
      [] b.t = "float" ->
            [ok |-> TRUE, v |-> IF b.v >= 0 THEN b.v \div 10 ELSE 0 - ((0 - b.v) \div 10),
             err |-> "none"]
      [] b.t = "str" ->
            IF IsIntLiteral(b.s) THEN [ok |-> TRUE, v |-> IntValue(b.s), err |-> "none"]
            ELSE [ok |-> FALSE, v |-> 0, err |-> "ValueError"]
      [] OTHER -> [ok |-> FALSE, v |-> 0, err |-> "TypeError"]

\* handle_response: the HTTP status answered for a body, and the value put
\* on response_queue (put = FALSE: nothing is put).
HandleResponseResult(b) ==
    CASE b.t = "nolength" -> [status |-> 400, put |-> FALSE, v |-> 0]
      [] b.t = "notjson" -> [status |-> 400, put |-> FALSE, v |-> 0]
      [] b.t = "nonobject" -> [status |-> 500, put |-> FALSE, v |-> 0]
      [] b.t \in { "nokey", "null" } -> [status |-> 400, put |-> FALSE, v |-> 0]
      [] OTHER ->
            LET r == PyInt(b)
            IN  IF r.ok THEN [status |-> 200, put |-> TRUE, v |-> r.v]
                ELSE IF r.err = "ValueError" THEN [status |-> 400, put |-> FALSE, v |-> 0]
                ELSE [status |-> 500, put |-> FALSE, v |-> 0]

\* Handler threads that still run: each holds a reference to the server.
Streaming == { c \in Clients : cl[c].state = "streaming" }

\* CameraHTTPServer.start for a new CameraStreamHandler: ThreadingHTTPServer
\* binds port 8999 in its constructor; the error of a failed bind is re-raised.
StartServer ==
    /\ srv.state \in { "none", "stopped" }
    /\ srv.starts < MaxStarts
    /\ IF srv.lsock
       THEN /\ srv' = [srv EXCEPT !.starts = @ + 1, !.bindFailed = TRUE]
            /\ UNCHANGED << mp4q, produced, cl, respq, lastPost >>
       ELSE /\ srv' = [srv EXCEPT !.starts = @ + 1, !.state = "serving", !.lsock = TRUE]
            /\ mp4q' = << >>
            /\ produced' = 0
            /\ cl' = [c \in Clients |-> NoClient]
            /\ respq' = << >>
            /\ lastPost' = NoPost
    /\ UNCHANGED << sessVars, rtcVars, unitVars >>

\* queue.Queue(maxsize): "If maxsize is <= 0, the queue size is infinite."
HasCapacity(maxsize) == maxsize >= 1

\* Queue.full()
QueueFull(q, maxsize) == HasCapacity(maxsize) /\ Len(q) >= maxsize

\* Queue.put_nowait(item): queue.Full is raised on a full queue, and the
\* callers drop the item.
PutNowait(q, maxsize, item) == IF QueueFull(q, maxsize) THEN q ELSE Append(q, item)

\* The capture offers the next MP4 chunk to mp4_queue and drops it if the
\* queue is full.
Produce ==
    /\ srv.state = "serving"
    /\ produced < MaxChunks
    /\ produced' = produced + 1
    /\ mp4q' = PutNowait(mp4q, MP4_QUEUE_MAXSIZE, produced + 1)
    /\ UNCHANGED << srv, cl, respq, lastPost, sessVars, rtcVars, unitVars >>

\* do_GET /video_live.mp4: a handler thread starts stream_live_video.
ClientConnect(c) ==
    /\ srv.state = "serving"
    /\ cl[c].state = "idle"
    /\ cl' = [cl EXCEPT ![c] = [state |-> "streaming", since |-> produced, got |-> << >>]]
    /\ UNCHANGED << srv, mp4q, produced, respq, lastPost, sessVars, rtcVars, unitVars >>

\* stream_live_video, one turn of its loop with an item on the queue:
\* mp4_queue.get takes the item; None ends the loop, a chunk is written to the
\* client, and a failed write ends the loop.
ClientGet(c) ==
    /\ cl[c].state = "streaming"
    /\ mp4q # << >>
    /\ mp4q' = Tail(mp4q)
    /\ IF Head(mp4q) = 0
       THEN cl' = [cl EXCEPT ![c].state = "ended"]
       ELSE \E written \in BOOLEAN :
              cl' = IF written THEN [cl EXCEPT ![c].got = Append(@, Head(mp4q))]
                    ELSE [cl EXCEPT ![c].state = "ended"]
    /\ UNCHANGED << srv, produced, respq, lastPost, sessVars, rtcVars, unitVars >>

\* do_POST /submit_response: handle_response
PostResponse ==
    /\ srv.state = "serving"
    /\ Len(respq) < MaxQueued
    /\ \E b \in PostBodies :
         LET r == HandleResponseResult(b)
             full == r.put /\ QueueFull(respq, RESPONSE_QUEUE_MAXSIZE)
         IN  /\ respq' = IF r.put THEN PutNowait(respq, RESPONSE_QUEUE_MAXSIZE, r.v) ELSE respq
             /\ lastPost' = [body |-> b, status |-> IF full THEN 500 ELSE r.status, before |-> respq]
    /\ UNCHANGED << srv, mp4q, produced, cl, sessVars, rtcVars, unitVars >>

\* stop_video_capture_and_stream: CameraHTTPServer.stop calls shutdown() and
\* drops the server object without server_close(), then None is put on
\* mp4_queue.  The listening socket is closed when the runtime reclaims the
\* server object, which every running handler thread still refers to.
StopOrder == << "websocket_manager.stop", "http_server.stop", "mp4_queue.put_nowait" >>

StopPipeline ==
    /\ srv.state = "serving"
    /\ \E reclaimed \in BOOLEAN :
         srv' = [srv EXCEPT !.state = "stopped",
                            !.lsock = ~(reclaimed /\ Streaming = {}),
                            !.stopOps = StopOrder]
    /\ mp4q' = PutNowait(mp4q, MP4_QUEUE_MAXSIZE, 0)
    /\ UNCHANGED << produced, cl, respq, lastPost, sessVars, rtcVars, unitVars >>

\* The runtime reclaims a stopped server that nothing refers to any more.
ServerReclaimed ==
    /\ srv.state = "stopped"
    /\ srv.lsock
    /\ Streaming = {}
    /\ srv' = [srv EXCEPT !.lsock = FALSE]
    /\ UNCHANGED << mp4q, produced, cl, respq, lastPost, sessVars, rtcVars, unitVars >>

(* --------------------- CLIWebRTCSession: signaling -------------------- *)

SessionIds == { "s1", "s2" }

\* Signaling messages the backend may send.  key says under which name the
\* session id arrives ("absent": under none); event and mid say whether
\* event_id and message_id are present; ok = FALSE is a message whose
\* handling raises (text that is not JSON, an SDP or a candidate the peer
\* connection rejects).
NoData == [shape |-> "none", items |-> << >>, accepted |-> TRUE]

SigMsg(type, key, sid, event, mid, ok) ==
    [type |-> type, key |-> key, sid |-> sid, event |-> event, mid |-> mid, ok |-> ok,
     data |-> NoData]

\* The "data" of a SET_REMOTE_ICE_CANDIDATES message: a list of candidate
\* objects, or one candidate object; and whether the peer connection accepts
\* the candidates it is given.
Candidates == { "c1", "c2" }
CandidateKeys == << "candidate", "sdpMLineIndex", "sdpMid" >>

IceData ==
    { [shape |-> sh, items |-> it, accepted |-> acc] :
        sh \in { "list" }, it \in { << >>, << "c1" >>, << "c1", "c2" >>, << "c2", "c1" >> },
        acc \in BOOLEAN }
    \cup { [shape |-> "object", items |-> << "c1" >>, accepted |-> acc] : acc \in BOOLEAN }

\* "for candidate_data in candidates": a list yields its elements, a dict
\* yields its keys.
IterCandidates(data) == IF data.shape = "object" THEN CandidateKeys ELSE data.items

\* add_ice_candidate, for every element in turn: candidate_data["candidate"]
\* raises for an element that is not a candidate object, addIceCandidate for
\* a candidate the peer connection does not accept.
RECURSIVE AddedCandidates(_, _)
AddedCandidates(elems, accepted) ==
    IF elems = << >> \/ ~accepted \/ Head(elems) \notin Candidates THEN << >>
    ELSE << Head(elems) >> \o AddedCandidates(Tail(elems), accepted)

IceHandled(data) ==
    Len(AddedCandidates(IterCandidates(data), data.accepted)) = Len(IterCandidates(data))

IceMsg(data) ==
    [SigMsg("SET_REMOTE_ICE_CANDIDATES", "absent", NoSid, FALSE, FALSE, IceHandled(data))
        EXCEPT !.data = data]

SigMsgs ==
    { SigMsg("CREATE_PEER_CONNECTION", k, i, e, m, TRUE) :
        k \in { "sessionId", "session_id" }, i \in SessionIds, e \in BOOLEAN, m \in BOOLEAN }
    \cup { SigMsg("CREATE_PEER_CONNECTION", "absent", NoSid, FALSE, FALSE, TRUE) }
    \cup { SigMsg(t, "absent", NoSid, FALSE, FALSE, ok) :
            t \in { "CREATE_OFFER", "SET_REMOTE_OFFER", "SET_REMOTE_ANSWER" },
            ok \in BOOLEAN }
    \cup { IceMsg(d) : d \in IceData }
    \cup { SigMsg(t, "absent", NoSid, FALSE, FALSE, TRUE) :
            t \in { "PEER_CONNECTION_STATE", "CLOSE_PEER_CONNECTION", "UNKNOWN" } }
    \cup { SigMsg("NOT_JSON", "absent", NoSid, FALSE, FALSE, FALSE) }

\* message.get("sessionId", message.get("session_id", self.session_id))
SessionIdOf_CamelCaseOnly(msg, current) ==
    IF msg.key = "sessionId" THEN msg.sid ELSE current

SessionIdOf(msg, current) ==
    IF msg.key = "sessionId" THEN msg.sid
    ELSE IF msg.key = "session_id" THEN msg.sid
    ELSE current

\* A signaling message the peer sends: json.dumps of type, sessionId, data,
\* error and, on an acknowledgement, the event_id and message_id echoed.
Outbound(type, sid, data, event, mid) ==
    [type |-> type, sid |-> sid, data |-> data, error |-> "null",
     event |-> event, mid |-> mid]

\* The calls on the peer connection and the socket made for a message that
\* is handled without an error, in order.
OpsFor(type) ==
    CASE type = "CREATE_OFFER" -> << "createOffer", "setLocalDescription", "send" >>
      [] type = "SET_REMOTE_OFFER" ->
            << "setRemoteDescription", "createAnswer", "setLocalDescription", "send" >>
      [] type = "SET_REMOTE_ANSWER" -> << "setRemoteDescription" >>
      [] type = "CREATE_PEER_CONNECTION" -> << "send" >>
      [] OTHER -> << >>

\* What the peer sends for a message handled without an error.
RepliesTo_AnswerAcknowledged(msg, sid) ==
    << Outbound(msg.type, sid, "null", msg.event, msg.mid) >>

RepliesTo(msg, sid) ==
    CASE msg.type = "CREATE_PEER_CONNECTION" ->
            << Outbound(msg.type, sid, "null", msg.event, msg.mid) >>
      [] msg.type = "CREATE_OFFER" ->
            << Outbound("CREATE_OFFER", sid, "local_sdp", FALSE, FALSE) >>
      [] msg.type = "SET_REMOTE_OFFER" ->
            << Outbound("CREATE_ANSWER", sid, "local_sdp", FALSE, FALSE) >>
      [] OTHER -> << >>

\* An exception in set_remote_offer_and_create_answer is caught there; any
\* other exception reaches "except Exception: break" in the loop.
BreaksLoop(msg) == ~msg.ok /\ msg.type # "SET_REMOTE_OFFER"

\* The loop after a message was handled: "continue" after
\* CLOSE_PEER_CONNECTION, the next turn after any other message.
LoopAfter_CloseEnds(msg) ==
    IF BreaksLoop(msg) \/ msg.type = "CLOSE_PEER_CONNECTION" THEN "ended" ELSE "running"

LoopAfter(msg) == IF BreaksLoop(msg) THEN "ended" ELSE "running"

\* connect(): the signaling socket is connected, the peer connection made
\* and the signaling task started; any exception makes it return False.
RtcConnect ==
    /\ rtc.sock = "none"
    /\ \E ok \in BOOLEAN :
         rtc' = IF ok THEN [rtc EXCEPT !.sock = "open", !.pc = "new", !.loop = "running"]
                ELSE [rtc EXCEPT !.sock = "failed", !.failed = TRUE]
    /\ UNCHANGED << sigIn, sigOut, sessVars, streamVars, unitVars >>

\* _handle_signaling_messages, one turn of its loop: recv, json.loads and the
\* branch for the message type.
RecvSignal ==
    /\ rtc.loop = "running"
    /\ rtc.sock = "open"
    /\ sigIn.n < MaxSig
    /\ \E msg \in SigMsgs :
         LET isCpc == msg.type = "CREATE_PEER_CONNECTION"
             sid == IF isCpc THEN SessionIdOf(msg, rtc.sid) ELSE rtc.sid
         IN  /\ sigIn' = [n |-> sigIn.n + 1, msg |-> msg,
                          ops |-> IF msg.ok THEN OpsFor(msg.type) ELSE << >>,
                          added |-> AddedCandidates(IterCandidates(msg.data), msg.data.accepted)]
             /\ sigOut' = IF msg.ok THEN RepliesTo(msg, sid) ELSE << >>
             /\ rtc' = [rtc EXCEPT
                    !.sid = sid,
                    !.loop = LoopAfter(msg),
                    !.failed = @ \/ ~msg.ok,
                    !.cpc = IF isCpc /\ msg.key # "absent" THEN msg.sid ELSE @,
                    !.prev = IF isCpc /\ msg.key # "absent" THEN rtc.cpc ELSE @,
                    !.cpcs = IF isCpc THEN @ + 1 ELSE @,
                    !.closes = IF msg.type = "CLOSE_PEER_CONNECTION" THEN @ + 1 ELSE @]
    /\ UNCHANGED << sessVars, streamVars, unitVars >>

\* on_ice_candidate: _send_ice_candidate sends the candidate with session_id.
IceCandidate ==
    /\ rtc.sock = "open"
    /\ rtc.pc = "new"
    /\ Len(sigOut) < 2
    /\ sigOut' = Append(sigOut, Outbound("LOCAL_ICE_CANDIDATES", rtc.sid, "candidate", FALSE, FALSE))
    /\ UNCHANGED << rtc, sigIn, sessVars, streamVars, unitVars >>

\* on_connection_state_change: the connected flag after the state changed.
ConnectedAfter_FailedOnly(state, connected) ==
    IF state = "connected" THEN TRUE
    ELSE IF state = "failed" THEN FALSE
    ELSE connected

ConnectedAfter(state, connected) ==
    IF state = "connected" THEN TRUE
    ELSE IF state \in { "failed", "closed" } THEN FALSE
    ELSE connected

ConnectionStateChange ==
    /\ rtc.pc = "new"
    /\ \E state \in { "connecting", "disconnected", "connected", "failed", "closed" } :
         rtc' = [rtc EXCEPT !.failed = FALSE,
                            !.state = state,
                            !.lastEv = IF state \in { "connected", "failed", "closed" }
                                       THEN state ELSE @,
                            !.connected = ConnectedAfter(state, @)]
    /\ UNCHANGED << sigIn, sigOut, sessVars, streamVars, unitVars >>

\* close(): the peer connection is closed; the signaling socket is left open.
RtcClose ==
    /\ rtc.pc = "new"
    /\ rtc' = [rtc EXCEPT !.pc = "closed", !.connected = FALSE, !.state = "closed",
                           !.lastEv = "close()"]
    /\ UNCHANGED << sigIn, sigOut, sessVars, streamVars, unitVars >>

(* ----------------- TestRunSocket: step and case updates ---------------- *)

\* "if case_key in self.test_case_step_errors": the step errors tracked for
\* the case of the update.
TrackedErrors_AnyCase(errs, key) ==
    IF \E k \in CaseKeys : k # key /\ errs[k] # << >>
    THEN errs[CHOOSE k \in CaseKeys : k # key /\ errs[k] # << >>] \o errs[key]
    ELSE errs[key]

TrackedErrors(errs, key) == errs[key]

\* __log_test_step_update: the errors of the step are tracked under its case.
LogTestStepUpdate ==
    /\ nUpd < MaxUpdates
    /\ \E key \in CaseKeys, errors \in ErrorLists :
         /\ stepErrors' = [stepErrors EXCEPT ![key] = @ \o errors]
         /\ lastUpd' = [kind |-> "step", key |-> key, errors |-> errors]
    /\ warned' = 0
    /\ nUpd' = nUpd + 1
    /\ UNCHANGED << sessVars, streamVars, rtcVars, cmdVars, ffVars, frameVars, timeVars >>

\* __log_test_case_update: for a failed or error state the errors of the
\* update and the tracked step errors are searched, the warning block is
\* printed, and the tracked errors of the case are deleted.
IsWebRTCTest(key, all_errors) ==
    \/ PublicId(key) \in KnownWebRTCTests
    \/ /\ all_errors # << >>
       /\ \E indicator \in webrtc_indicators : Contains(Lower(Join(all_errors)), indicator)

LogTestCaseUpdate ==
    /\ nUpd < MaxUpdates
    /\ \E key \in CaseKeys, state \in CaseStates, errors \in ErrorLists :
         LET tracked == TrackedErrors(stepErrors, key)
         IN  /\ lastUpd' = [kind |-> "case", key |-> key, state |-> state,
                            errors |-> errors, tracked |-> tracked]
             /\ IF state \in { "failed", "error" }
                THEN /\ warned' = IF IsWebRTCTest(key, errors \o tracked) THEN 1 ELSE 0
                     /\ stepErrors' = [stepErrors EXCEPT ![key] = << >>]
                ELSE /\ warned' = 0
                     /\ stepErrors' = stepErrors
    /\ nUpd' = nUpd + 1
    /\ UNCHANGED << sessVars, streamVars, rtcVars, cmdVars, ffVars, frameVars, timeVars >>

(* ------------------------ FFmpegStreamConverter ----------------------- *)

\* start_conversion: ffmpeg.run_async starts the process, or fails.
StartConversion ==
    /\ ~ff.handle
    /\ ff.starts < MaxStarts
    /\ \E ok \in BOOLEAN :
         ff' = IF ok
               THEN [ff EXCEPT !.handle = TRUE, !.proc = "running", !.stdin = "open",
                               !.fed = 0, !.read = 0, !.starts = @ + 1, !.ops = << >>]
               ELSE [ff EXCEPT !.starts = @ + 1]
    /\ UNCHANGED << sessVars, streamVars, rtcVars, logVars, cmdVars, frameVars, timeVars >>

\* feed_data: a block is written to the standard input of the process; the
\* write fails, and is logged, when the process has exited.
FeedData ==
    /\ ff.handle
    /\ ff.fed < MaxChunks
    /\ ff' = IF ff.proc = "running" THEN [ff EXCEPT !.fed = @ + 1] ELSE ff
    /\ ff' # ff
    /\ UNCHANGED << sessVars, streamVars, rtcVars, logVars, cmdVars, frameVars, timeVars >>

\* _read_ffmpeg_output: while the process runs, what it wrote is read and
\* put on output_queue.
ReadFFmpegOutput ==
    /\ ff.handle
    /\ ff.proc = "running"
    /\ ff.read < ff.fed
    /\ ff' = [ff EXCEPT !.read = @ + 1, !.outq = @ + 1]
    /\ UNCHANGED << sessVars, streamVars, rtcVars, logVars, cmdVars, frameVars, timeVars >>

\* get_converted_data
GetConvertedData ==
    /\ ff.outq > 0
    /\ ff' = [ff EXCEPT !.outq = @ - 1]
    /\ UNCHANGED << sessVars, streamVars, rtcVars, logVars, cmdVars, frameVars, timeVars >>

\* The process ends by itself: it fails on its input, or is killed from outside.
ProcessExits ==
    /\ ff.proc = "running"
    /\ ff' = [ff EXCEPT !.proc = "exited"]
    /\ UNCHANGED << sessVars, streamVars, rtcVars, logVars, cmdVars, frameVars, timeVars >>

\* What stop() does to the process: stdin.close(), terminate(), wait(timeout=5);
\* an exception (a broken pipe on closing, TimeoutExpired on waiting) ends the
\* steps and is logged.
StopSteps(closeRaises, exitsInTime) ==
    IF closeRaises THEN << "close_stdin" >>
    ELSE << "close_stdin", "terminate", "wait" >>

\* The process after those steps: it is gone if it was killed, or if it was
\* sent SIGTERM and exited within the time waited.
ProcAfter(proc, steps, exitsInTime) ==
    IF proc # "running" THEN proc
    ELSE IF \E i \in 1..Len(steps) : steps[i] = "kill" THEN "exited"
    ELSE IF (\E i \in 1..Len(steps) : steps[i] = "terminate") /\ exitsInTime THEN "exited"
    ELSE "running"

\* stop(): "finally: self.ffmpeg_process = None".  Closing the standard input
\* of a process that is gone can fail with a broken pipe; a running process
\* may or may not exit within 5 s of SIGTERM.
StopConversion ==
    /\ ff.handle
    /\ \E closeRaises \in { FALSE, ff.proc = "exited" }, exitsInTime \in BOOLEAN :
         LET steps == StopSteps(closeRaises, exitsInTime)
         IN  ff' = [ff EXCEPT !.handle = FALSE,
                              !.stdin = "closed",
                              !.proc = ProcAfter(ff.proc, steps, exitsInTime),
                              !.leaked = IF ProcAfter(ff.proc, steps, exitsInTime) = "running"
                                         THEN @ + 1 ELSE @,
                              !.ops = steps]
    /\ UNCHANGED << sessVars, streamVars, rtcVars, logVars, cmdVars, frameVars, timeVars >>

(* --------------------------- specifications --------------------------- *)

FileUploadHandler ==
    \E m \in Mids :
        \/ PromptTimeout(m)
        \/ FileUploadInput(m)
        \/ FileUpload(m)
        \/ FileUploadClose(m)
        \/ PromptDone(m)

Next ==
    \/ ParseSelectedTests
    \/ CreateNewTestRun
    \/ StartTestRun
    \/ AwaitSocketTask
    \/ ServerSend
    \/ ServerClose
    \/ Connect
    \/ RecvClosed
    \/ RecvSkipped
    \/ RecvRunUpdate
    \/ RecvTreeUpdate
    \/ RecvPromptRequest
    \/ RecvFileUploadRequest
    \/ FileUploadHandler
    \/ \E m \in Mids : Tick(m)

Spec == Init /\ [][Next]_vars

NextPrompt ==
    \/ HandlePrompt
    \/ HandleFileUploadRequest
    \/ HandleVideoPromptDirect
    \/ HandleImagePromptDirect
    \/ FileUploadHandler
    \/ \E m \in Mids : OptionsInput(m) \/ TextInput(m) \/ ImageSave(m)
    \/ \E m \in Mids : Tick(m)
    \/ \E m \in Mids : VideoStart(m) \/ VideoShowUrl(m) \/ VideoCaptureTask(m) \/ SubmitResponse(m)
    \/ \E m \in Mids : VideoAnswer(m) \/ VideoDeadline(m) \/ VideoStop(m) \/ VideoSend(m)

SpecPrompt == InitPrompt /\ [][NextPrompt]_vars

\* A session of stream-verification prompts, with the clients of their forms.
NextForm ==
    \/ HandleVideoPromptDirect
    \/ \E m \in Mids : VideoStart(m) \/ VideoShowUrl(m) \/ VideoCaptureTask(m) \/ PostAnyTime(m)
    \/ \E m \in Mids : VideoAnswer(m) \/ VideoDeadline(m) \/ VideoStop(m) \/ VideoSend(m)
    \/ \E m \in Mids : PromptDone(m)

SpecForm == InitPrompt /\ [][NextForm]_vars

\* The event loop runs the socket task whenever it can go on: a receive loop
\* standing at recv() on a closed connection is resumed.
SpecLive == Init /\ [][Next]_vars /\ WF_vars(RecvClosed)

\* One process that starts and stops the video pipeline, with its clients.
InitStream == InitPrompt

NextStream ==
    \/ StartServer
    \/ Produce
    \/ PostResponse
    \/ StopPipeline
    \/ ServerReclaimed
    \/ \E c \in Clients : ClientConnect(c) \/ ClientGet(c)

SpecStream == InitStream /\ [][NextStream]_vars

\* Every handler thread runs: a client that finds an item on the queue takes
\* it; the pipeline that was started is stopped.
SpecStreamLive ==
    /\ SpecStream
    /\ \A c \in Clients : WF_vars(ClientGet(c))
    /\ WF_vars(StopPipeline)

\* One WebRTC session of the video handler and the backend's signaling.
InitRtc == InitPrompt

NextRtc ==
    \/ RtcConnect
    \/ RecvSignal
    \/ IceCandidate
    \/ ConnectionStateChange
    \/ RtcClose

SpecRtc == InitRtc /\ [][NextRtc]_vars

\* One TestRunSocket that logs the updates of a run's steps and cases.
InitLog == InitPrompt

NextLog ==
    \/ LogTestStepUpdate
    \/ LogTestCaseUpdate

SpecLog == InitLog /\ [][NextLog]_vars

\* One transcoder that is started, fed, read and stopped.
InitFFmpeg == InitPrompt

NextFFmpeg ==
    \/ StartConversion
    \/ FeedData
    \/ ReadFFmpegOutput
    \/ GetConvertedData
    \/ ProcessExits
    \/ StopConversion

SpecFFmpeg == InitFFmpeg /\ [][NextFFmpeg]_vars

(* ------------------------------ properties ---------------------------- *)

\* The entry point called for prompt request m has returned to its caller,
\* or the call itself failed.
HandlerReturned(m) == hpc[m] \in Returned

\* C1: every prompt request the session has received and is done with, of
\* whatever kind and with whatever outcome, was answered by exactly one
\* prompt_response carrying its message id.
ExactlyOneResponsePerPrompt ==
    \A m \in Mids : HandlerReturned(m) => Cardinality(ResponsesFor(m)) = 1

\* C2: a prompt whose timeout elapsed before valid input was collected was
\* answered by a prompt_response with status TIMEOUT and value 0/empty.
TimeoutIsAnswered ==
    \A m \in Mids :
        hpc[m] \in { "end_timeout", "ret_timeout" } =>
            \E i \in ResponsesFor(m) :
                out[i].status = TIMEOUT /\ out[i].ival = 0 /\ out[i].sval = EmptyStr

\* C3: on every path of every handler at most one prompt_response is sent
\* for a message id, and only for the id of a prompt request that was received.
AtMostOneResponsePerPrompt ==
    /\ \A m \in Mids : Cardinality(ResponsesFor(m)) <= 1
    /\ \A i \in 1..Len(out) : out[i].mid \in Prompts

\* C4: inbound messages are handled one at a time and in order: while the
\* handler of prompt m runs, m is the last message taken from the channel and
\* the loop waits for it; a response to m is sent before any later message
\* is taken; at most one prompt awaits the user.
OneMessageAtATime ==
    /\ \A m \in Mids : Active(m) => taken = m /\ loop = "handling"
    /\ \A i \in 1..Len(out) : out[i].seq = out[i].mid
    /\ Cardinality(AwaitingUser) <= 1

\* A prompt has been answered and its handler still runs while a later
\* message is waiting on the channel.
AnsweredWhileNextPending ==
    \E m \in Mids : Active(m) /\ ResponsesFor(m) # {} /\ taken < sent

ServerCloseIsFatal ==
    (chan \in { "closed_ok", "closed_err" } /\ termAt = 0) => cmd # "exit0"


\* Prompt m is (being) answered from standard input as an options prompt.
StdinOptions(m) ==
    /\ HasOptions(req[m].kind)
    /\ vid[m].http = "none"
    /\ hpc[m] \in { "opt_wait", "img_wait", "end_answered" }

\* C7: an options prompt answered from standard input gets an OK response
\* only with an integer that is a value of its options map; after any other
\* input the prompt is printed again and no response has been sent.
OptionsResponseIsAnOption ==
    \A m \in Mids : StdinOptions(m) =>
        /\ \A i \in ResponsesFor(m) :
              out[i].status = OKAY => out[i].ival \in req[m].options
        /\ hpc[m] \in { "opt_wait", "img_wait" } =>
              /\ ResponsesFor(m) = {}
              /\ reprompted => ~(IsIntLiteral(lastLine) /\ IntValue(lastLine) \in req[m].options)
        /\ hpc[m] = "end_answered" =>
              /\ ResponsesFor(m) # {}
              /\ IsIntLiteral(lastLine) /\ IntValue(lastLine) \in req[m].options

\* An options prompt was answered on standard input after at least one
\* rejected line.
OptionAcceptedAfterReprompt ==
    \E m \in Mids :
        StdinOptions(m) /\ reprompted /\ hpc[m] = "end_answered" /\ ResponsesFor(m) # {}

\* C8: a text prompt with a regular expression gets an OK response only with
\* an input the expression matches as a whole; without a regular expression
\* every line is accepted.
TextResponseFullyMatches ==
    \A m \in Mids :
        (req[m].kind = "TextInputPromptRequest" /\ hpc[m] = "end_answered") =>
            \A i \in ResponsesFor(m) :
                (out[i].status = OKAY /\ ~req[m].regex.none) =>
                    FullMatch(req[m].regex, out[i].sval)

\* C9: the verification URL is shown only after the HTTP server was started,
\* and a prompt_response of a prompt the video handler served is sent only
\* after the HTTP server was stopped.
HttpServerBracketsPrompt ==
    \A m \in Mids :
        /\ vid[m].url => vid[m].http # "none"
        /\ ResponsesFor(m) # {} => vid[m].http # "serving"
        /\ (ResponsesFor(m) # {} /\ vid[m].http # "none") => vid[m].stopped

\* The video handler showed the URL, stopped its HTTP server and answered.
VideoPromptAnswered ==
    \E m \in Mids : vid[m].url /\ vid[m].http = "stopped" /\ ResponsesFor(m) # {}

\* C10: when the handler of a stream prompt has returned, whatever the
\* outcome, nothing it started is still active: not the HTTP listener, not
\* the ingest connection, not the WebRTC session.
VideoResourcesTornDown ==
    \A m \in Mids :
        (HandlerReturned(m) /\ vid[m].http # "none") =>
            /\ vid[m].http # "serving"
            /\ vid[m].ingest # "connected"
            /\ vid[m].webrtc # "open"

\* The pipeline of stream prompt m could not be set up: the HTTP server did
\* not bind, or neither WebRTC nor the ingest WebSocket connected.
VideoSetupFailed(m) ==
    /\ req[m].kind = "StreamVerificationPromptRequest"
    /\ hpc[m] \in Ended
    /\ hpc[m] = "end_error" \/ vid[m].ingest = "failed"

\* C11: a stream prompt whose video pipeline could not be set up is answered
\* by a prompt_response with status INVALID for its message id.
SetupFailureIsAnsweredInvalid ==
    \A m \in Mids :
        VideoSetupFailed(m) => \E i \in ResponsesFor(m) : out[i].status = INVALID

\* C12: every client of the live stream receives, in order and without a
\* gap, the chunks produced while it was connected: a chunk it has received
\* is preceded by every earlier chunk produced since it connected.
EveryClientGetsEveryChunk ==
    \A c \in Clients :
        \A i \in 1..Len(cl[c].got) :
            \A k \in (cl[c].since + 1)..(cl[c].got[i] - 1) :
                \E j \in 1..(i - 1) : cl[c].got[j] = k

\* C13: once the pipeline is stopped, every client that is streaming
\* eventually observes the end of the stream and its loop terminates.
StopEndsEveryStream ==
    \A c \in Clients :
        (srv.state = "stopped" /\ cl[c].state = "streaming") ~> (cl[c].state # "streaming")

\* C14: a POST to /submit_response is answered 200 only for a body whose
\* response field is an integer, and then exactly that integer was put on
\* the response queue; any other body is answered 400 and puts nothing.
OnlyIntegersAreEnqueued ==
    lastPost.body.t # "none" =>
        /\ lastPost.status = 200 =>
              lastPost.body.t = "int" /\ respq = Append(lastPost.before, lastPost.body.v)
        /\ lastPost.body.t # "int" =>
              lastPost.status = 400 /\ respq = lastPost.before

\* C15: when stop() has returned the listening socket is released, and no
\* start() after a stop() fails to bind the port.
StopReleasesPort ==
    /\ srv.state = "stopped" => ~srv.lsock
    /\ ~srv.bindFailed

\* The messages sent in answer to the signaling message handled last.
Replies == SelectSeq(sigOut, LAMBDA o : o.type # "LOCAL_ICE_CANDIDATES")

\* C16: once a CREATE_PEER_CONNECTION with a session id has been handled,
\* every message the peer sends (acknowledgement, CREATE_OFFER,
\* CREATE_ANSWER, LOCAL_ICE_CANDIDATES) carries the session id of the most
\* recent one.
OutboundCarriesControllerSession ==
    rtc.cpc # NoSid =>
        /\ rtc.sid = rtc.cpc
        /\ \A i \in 1..Len(sigOut) : sigOut[i].sid = rtc.cpc

\* A second CREATE_PEER_CONNECTION with another session id was acknowledged
\* with that id, and a later ICE candidate carries it too.
SecondSessionSupersedes ==
    /\ rtc.cpcs >= 2
    /\ rtc.prev = "s1"
    /\ rtc.cpc = "s2"
    /\ sigIn.msg.type = "CREATE_PEER_CONNECTION"
    /\ Len(sigOut) = 2
    /\ sigOut[1].type = "CREATE_PEER_CONNECTION" /\ sigOut[1].sid = "s2"
    /\ sigOut[2].type = "LOCAL_ICE_CANDIDATES" /\ sigOut[2].sid = "s2"

\* C17: a signaling message handled without an error gets exactly the
\* specified replies: CREATE_PEER_CONNECTION one acknowledgement of its type
\* with null data and error that echoes event_id and message_id;
\* CREATE_OFFER one CREATE_OFFER with the local SDP after createOffer and
\* setLocalDescription; SET_REMOTE_OFFER one CREATE_ANSWER with the local
\* SDP after setRemoteDescription, createAnswer and setLocalDescription;
\* every other message none.
ExactlyTheSpecifiedReplies ==
    (sigIn.n > 0 /\ sigIn.msg.ok) =>
        LET msg == sigIn.msg
            one == Len(Replies) = 1
            r == Replies[1]
        IN  CASE msg.type = "CREATE_PEER_CONNECTION" ->
                    /\ one
                    /\ r.type = msg.type /\ r.data = "null" /\ r.error = "null"
                    /\ r.event = msg.event /\ r.mid = msg.mid
              [] msg.type = "CREATE_OFFER" ->
                    /\ one
                    /\ r.type = "CREATE_OFFER" /\ r.data = "local_sdp"
                    /\ sigIn.ops = << "createOffer", "setLocalDescription", "send" >>
              [] msg.type = "SET_REMOTE_OFFER" ->
                    /\ one
                    /\ r.type = "CREATE_ANSWER" /\ r.data = "local_sdp"
                    /\ sigIn.ops = << "setRemoteDescription", "createAnswer",
                                      "setLocalDescription", "send" >>
              [] OTHER -> Replies = << >>

\* A SET_REMOTE_OFFER was answered with a CREATE_ANSWER.
OfferAnswered ==
    /\ sigIn.msg.type = "SET_REMOTE_OFFER"
    /\ sigIn.msg.ok
    /\ Len(Replies) = 1
    /\ Replies[1].type = "CREATE_ANSWER"

\* C18: CLOSE_PEER_CONNECTION leaves the signaling socket open and the loop
\* running (the loop ends only on a message whose handling raises), and a
\* CREATE_PEER_CONNECTION, CREATE_OFFER or SET_REMOTE_OFFER that arrives
\* after it is still answered.
CloseKeepsSignalingAlive ==
    /\ rtc.loop # "none" => rtc.sock = "open"
    /\ rtc.loop = "ended" => ~sigIn.msg.ok
    /\ ( /\ rtc.closes > 0
         /\ sigIn.msg.ok
         /\ sigIn.msg.type \in { "CREATE_PEER_CONNECTION", "CREATE_OFFER", "SET_REMOTE_OFFER" } )
       => Replies # << >>

\* After a CLOSE_PEER_CONNECTION a later CREATE_OFFER was answered.
OfferAfterClose ==
    /\ rtc.closes > 0
    /\ sigIn.msg.type = "CREATE_OFFER"
    /\ sigIn.msg.ok
    /\ Replies # << >>
    /\ rtc.loop = "running"

\* C19: after a failure while connecting to signaling or while handling a
\* signaling message the peer's connected flag is false.
FailureClearsConnected ==
    rtc.failed => ~rtc.connected

\* C20: a file of at most 100 MiB given to the upload is accepted and the
\* upload request is issued for it; a file of 100 MiB + 1 bytes or more is
\* rejected and no request is issued.
UploadSizeLimit ==
    upl.isfile =>
        /\ upl.size <= 100 * 1024 * 1024 => upl.posted
        /\ upl.size >= 100 * 1024 * 1024 + 1 => ~upl.posted

\* A file of exactly 100 MiB was uploaded, and one of a byte more was not.
UploadAtTheLimit ==
    /\ upl.isfile
    /\ upl.size = 100 * 1024 * 1024
    /\ upl.posted
    /\ \E m \in Mids : hpc[m] \in { "fu_close", "end_answered" } /\ ResponsesFor(m) # {}

MessageErrorSkipped ==
    [][ (Receiving /\ taken' = taken + 1) => loop' \in { "recv", "handling" } ]_vars

\* C23: on an update of a test case the warning block is printed once when
\* the state is failed or error and the case's public id is a known WebRTC
\* test or the lower-cased text of the update's errors and of the step errors
\* tracked for that same case contains an indicator; otherwise, and on any
\* other update, it is not printed. Errors tracked for other cases play no part.
WarningOnlyForBrowserCases ==
    [][ nUpd' = nUpd + 1 =>
          warned' =
            IF /\ lastUpd'.kind = "case"
               /\ lastUpd'.state \in { "failed", "error" }
               /\ \/ PublicId(lastUpd'.key) = "TC_WEBRTC_1_6"
                  \/ \E indicator \in webrtc_indicators :
                       Contains(Lower(Join(lastUpd'.errors \o stepErrors[lastUpd'.key])), indicator)
            THEN 1 ELSE 0 ]_vars

\* A case that is no known WebRTC test failed without errors of its own and
\* was warned about for an error of one of its steps, while errors tracked
\* for another case were left alone.
WarnedForStepError ==
    /\ lastUpd.kind = "case"
    /\ lastUpd.state = "failed"
    /\ PublicId(lastUpd.key) # "TC_WEBRTC_1_6"
    /\ lastUpd.errors = << >>
    /\ lastUpd.tracked # << >>
    /\ warned = 1
    /\ \E k \in CaseKeys : k # lastUpd.key /\ stepErrors[k] # << >>

\* C24: when the run_tests command has ended, on whichever path, its REST
\* client has been closed exactly once; it is never closed twice.
ClientClosedOnceOnExit ==
    /\ aclosed <= 1
    /\ cmd \in { "exit0", "exit1" } => aclosed = 1

\* C25: the MP4 queue has a fixed finite capacity, the size it was made
\* with, and in every state it holds at most that many items (a chunk
\* offered to the full queue is dropped and leaves the queue as it was).
MP4QueueWithinCapacity ==
    mp4q # << >> =>
        /\ HasCapacity(MP4_QUEUE_MAXSIZE)
        /\ Len(mp4q) <= MP4_QUEUE_MAXSIZE

\* C26: the response channel holds at most one value: a POST to
\* /submit_response that arrives while a value waits unread is answered
\* with 500 and adds no second value.
ResponseChannelHoldsOne ==
    /\ Len(respq) <= 1
    /\ lastPost.before # << >> /\ HandleResponseResult(lastPost.body).put
         => lastPost.status = 500 /\ respq = lastPost.before

\* C27: stop() closes the standard input of the transcoder, waits for it to
\* exit, and kills it if it is still running after the wait; when stop() has
\* returned the process is never left running with its handle dropped.
TranscoderStoppedForGood ==
    /\ ~ff.handle => ff.proc # "running"
    /\ ff.leaked = 0
    /\ ff.ops # << >> =>
         /\ ff.ops[1] = "close_stdin"
         /\ \A i \in 1..Len(ff.ops) : ff.ops[i] = "kill" =>
              \E j \in 1..(i - 1) : ff.ops[j] = "wait"

\* C28: stopping the video pipeline first stops the ingest socket and the
\* transcoder (both by the manager of the ingest socket), then puts the
\* end-of-stream sentinel on the MP4 queue, and only then stops the HTTP server.
SentinelBeforeHttpStop ==
    srv.stopOps # << >> =>
        \E i, j, k \in 1..Len(srv.stopOps) :
            /\ i < j /\ j < k
            /\ srv.stopOps[i] = "websocket_manager.stop"
            /\ srv.stopOps[j] = "mp4_queue.put_nowait"
            /\ srv.stopOps[k] = "http_server.stop"

\* C29: for a stream prompt the verification URL is printed, and the browser
\* opened, only when the video pipeline has signalled stream-ready.
UrlShownAfterStreamReady ==
    [][ \A m \in Mids : (~vid[m].url /\ vid'[m].url) => vid[m].ready ]_vars

\* C30: stream-ready is signalled only once the ingest client is connected
\* to the video endpoint: whenever stream-ready becomes set, the ingest
\* connection that feeds the transcoder and the MP4 queue is established.
StreamReadyMeansIngestConnected ==
    [][ \A m \in Mids : (~vid[m].ready /\ vid'[m].ready) => vid'[m].ingest = "connected" ]_vars

\* C31: every prompt request is handled by the handler of its own kind: a
\* handler that waits for the user of a stream-verification request is the
\* video handler, of an image-verification request the image handler, of a
\* text-input request the text handler, and of an options-select, two-way-talk
\* or push-AV request the options handler on standard input.
RequestReachesHandlerOfItsKind ==
    \A m \in Mids :
        hpc[m] \in WaitStates \ { "fu_wait" } =>
            /\ req[m].kind = "StreamVerificationPromptRequest" => hpc[m] = "v_wait"
            /\ req[m].kind = "ImageVerificationPromptRequest" => hpc[m] = "img_wait"
            /\ req[m].kind = "TextInputPromptRequest" => hpc[m] = "text_wait"
            /\ req[m].kind \in { "OptionsSelectPromptRequest", "TwoWayTalkVerificationRequest",
                                 "PushAVStreamVerificationRequest" } => hpc[m] = "opt_wait"

\* C32: SET_REMOTE_ICE_CANDIDATES is accepted in both shapes: the candidates
\* of a list are added to the peer connection in list order, a single
\* candidate object is added as that one candidate, and in both cases (the
\* peer connection accepting them) the signaling loop goes on.
IceCandidatesInEitherShape ==
    ( /\ sigIn.n > 0
      /\ sigIn.msg.type = "SET_REMOTE_ICE_CANDIDATES"
      /\ sigIn.msg.data.accepted )
    => /\ sigIn.added = sigIn.msg.data.items
       /\ rtc.loop = "running"

\* C33: when a case makes a terminal transition (passed, failed, error,
\* not applicable or cancelled) the step errors tracked under its (suite
\* index, case index) are removed: after such an update of a case the map
\* holds nothing for that case.
TerminalCaseFlushesStepErrors ==
    ( /\ lastUpd.kind = "case"
      /\ lastUpd.state \in { "passed", "failed", "error", "not_applicable", "cancelled" } )
    => stepErrors[lastUpd.key] = << >>

\* C34: the connected flag is false at first, is set by the connection
\* state "connected", cleared by "failed" and "closed" and by close(), and
\* left alone by every other state: it is true exactly when the last of those
\* events was the state "connected".
ConnectedFollowsLastEvent ==
    /\ rtc.connected <=> rtc.lastEv = "connected"
    /\ rtc.lastEv = "none" => ~rtc.connected

\* The connection was connected and then reported "disconnected", which left
\* the flag set.
StillConnectedWhenDisconnected ==
    /\ rtc.state = "disconnected"
    /\ rtc.lastEv = "connected"
    /\ rtc.connected

\* C35: a frame that is binary, fails validation, is of no known kind or is
\* a time_out_notification is skipped: taking it sends nothing, leaves the
\* buffered step errors, the prompts and the rest of the session as they
\* were, leaves the channel open, and leaves the loop at recv() for the next
\* message.
SkippedFrameChangesNothing ==
    [][ ( /\ taken' = taken + 1
          /\ frame'.kind \in { "binary", "invalid", "unknown", "time_out_notification" } )
        => /\ out' = out
           /\ stepErrors' = stepErrors
           /\ chan = "open" /\ chan' = "open"
           /\ loop' = "recv"
           /\ UNCHANGED << cmd, sent, termAt, hpc, req, lastLine, reprompted, vid, upl >>
           /\ UNCHANGED << streamVars, rtcVars, logVars, cmdVars, ffVars, timeVars >> ]_vars

\* The message after a skipped frame is a file upload request, and its
\* handler is running.
RequestHandledAfterSkippedFrame ==
    /\ frame.afterSkip
    /\ frame.kind = "file_upload_request"
    /\ hpc[taken] = "fu_wait"

\* C36: the value sent in the OK prompt_response of a stream-verification
\* prompt answered through the web form is one of the option ids of that
\* prompt: an integer POSTed to /submit_response that is no option id of the
\* prompt is never forwarded as its answer.
StreamAnswerIsAnOption ==
    [][ \A m \in Mids :
          ( hpc[m] = "v_send" /\ hpc'[m] = "end_answered" )
          => /\ out' # out
             /\ out'[Len(out')].mid = m
             /\ out'[Len(out')].ival \in req[m].options ]_vars

\* C37: the timeout of an options, text, image or file-upload prompt bounds
\* the whole wait for input: invalid inputs and re-prompts neither restart
\* nor extend the deadline, so a prompt never waits for input longer than its
\* timeout, and when it times out it has waited exactly that long.
TimeoutBoundsWholeWait ==
    \A m \in Mids :
        /\ ( hpc[m] \in { "fu_wait", "opt_wait", "text_wait", "img_wait" } /\ clk.m = m )
           => clk.waited <= PromptSeconds
        /\ ( hpc[m] = "end_timeout" /\ clk.m = m ) => clk.waited = PromptSeconds

\* A prompt was asked again after an invalid input and then timed out, the
\* timeout after its wait began.
TimedOutAfterInvalidInput ==
    \E m \in Mids :
        /\ hpc[m] = "end_timeout"
        /\ clk.m = m
        /\ clk.waited = PromptSeconds
        /\ reprompted

\* C38: after close() has returned the signaling WebSocket is closed and the
\* signaling handler task has stopped, so that no signaling message received
\* afterwards is handled and none is sent.
SignalingStoppedAfterClose ==
    [][ rtc.lastEv = "close()"
        => /\ rtc.sock # "open"
           /\ rtc.loop # "running"
           /\ sigIn' = sigIn
           /\ sigOut' = sigOut ]_vars

\* C39: in run_tests the event channel is connected and its loop is
\* receiving before the request that starts the run is issued, whatever the
\* interleaving of the socket task and the start request.
ChannelReceivingBeforeStart ==
    [][ ( cmd = "start_run" /\ cmd' # cmd )
        => ( chan = "open" /\ loop \in { "recv", "handling" } ) ]_vars

\* C40: a value submitted to /submit_response is only ever used to answer
\* the stream-verification prompt that was active when it was submitted:
\* over any sequence of stream prompts, timed out and failed ones included,
\* the response sent for a prompt carries a value POSTed during that prompt.
ValueAnswersThePromptItWasPostedIn ==
    [][ \A m \in Mids :
          ( hpc[m] = "v_send" /\ hpc'[m] = "end_answered" )
          => /\ out' # out
             /\ out'[Len(out')].mid = m
             /\ out'[Len(out')].ival = vid[m].answer
             /\ vid[m].during = m ]_vars

\* A value POSTed during a later prompt was taken by the server an earlier,
\* timed out prompt had left serving, and the later prompt is over.
PostedToEarlierServer ==
    \E m \in Mids, k \in Mids :
        /\ m < k
        /\ hpc[m] = "ret_timeout"
        /\ hpc[k] \in Returned
        /\ \E i \in DOMAIN vid[m].q : vid[m].q[i].during = k

====
